---- MODULE Spec2Model ----
(***************************************************************************)
(* A model of the multilock crate (src/src/lib.rs): sessions that register *)
(* mutexes with a Builder, lock them in ascending address order in         *)
(* Builder::finish, access the data through Tokens and release everything  *)
(* in Locker::drop.                                                        *)
(***************************************************************************)
EXTENDS Integers, Sequences, FiniteSets, TLC

\* Bounds of the model.
NumThreads == 2
NumRes == 3
MaxSessions == 2
\* The longest registration of a session that may register a mutex twice.
MaxAdds == 3
\* Sessions started inside the callback of another session.
MaxNested == 1

\* The value the test's first mutex starts with.
InitValue == 5

Threads == 1..NumThreads
\* A thread runs one multilock call and, from inside its callback, at most one
\* more: slot t is the outer call of thread t and Inner(t) the nested one.
Slots == 1..(2 * NumThreads)
Inner(t) == t + NumThreads
\* A mutex is identified by its address; the addresses are 1..NumRes.
Resources == 1..NumRes
\* Values stored in a mutex: the test's 5 and the 10 it is overwritten with.
Values == {InitValue, 2 * InitValue}

VARIABLES
    pc,         \* per thread: where its session is
    brand,      \* per thread: the 'id of its current (or last) multilock call
    nextId,     \* number of multilock invocations so far
    builder,    \* per thread: Builder.locks, in registration order
    tokens,     \* per thread: the Tokens its add calls returned
    locks,      \* per thread: the sorted `locks` of finish, then Locker.locks
    idx,        \* per thread: position of the loop in finish or drop
    locked,     \* per mutex: the raw mutex's state
    data,       \* per mutex: the protected value
    holders,    \* per mutex: brands whose lock() returned and was not undone
    registered, \* per thread: every add of the session, in call order
    lockLog,    \* per thread: the raw lock() calls that returned, in order
    unlockLog,  \* per thread: the raw unlock() calls, in order
    expect,     \* per thread, per mutex it holds: the value found when it was
                \* locked, or the last value the session stored with get_mut
    issued,     \* the brands of all multilock invocations, in call order
    assertFailed, \* a debug_assert!(is_locked()) of get or get_mut failed
    exit        \* per thread: how the callback left the session

vars == <<pc, brand, nextId, builder, tokens, locks, idx, locked, data, holders,
          registered, lockLog, unlockLog, expect, issued, assertFailed, exit>>

sessionVars == <<builder, tokens, locks, idx>>
mutexVars == <<locked, holders>>
logVars == <<registered, lockLog, unlockLog>>
dataVars == <<data, expect, assertFailed>>

\* A function with one more point, and with one point less.
Extend(f, x, v) == [y \in DOMAIN f \cup {x} |-> IF y = x THEN v ELSE f[y]]
Without(f, x) == [y \in DOMAIN f \ {x} |-> f[y]]
EmptyFn == [y \in {} |-> InitValue]

Range(s) == {s[i] : i \in 1..Len(s)}
Count(s, x) == Cardinality({i \in 1..Len(s) : s[i] = x})

\* An insertion with the comparison the wrong way round.
RECURSIVE InsertDescending(_, _)
InsertDescending(s, x) ==
    IF s = <<>> THEN <<x>>
    ELSE IF Head(s) >= x THEN <<Head(s)>> \o InsertDescending(Tail(s), x)
    ELSE <<x>> \o s

\* Insert x into the sorted sequence s, after the elements not above it.
RECURSIVE InsertByAddr(_, _)
InsertByAddr(s, x) ==
    IF s = <<>> THEN <<x>>
    ELSE IF Head(s) <= x THEN <<Head(s)>> \o InsertByAddr(Tail(s), x)
    ELSE <<x>> \o s

\* A sort that keeps one of several references to the same mutex.
RECURSIVE InsertUnique(_, _)
InsertUnique(s, x) ==
    IF s = <<>> THEN <<x>>
    ELSE IF Head(s) = x THEN s
    ELSE IF Head(s) < x THEN <<Head(s)>> \o InsertUnique(Tail(s), x)
    ELSE <<x>> \o s

RECURSIVE SortDedup(_)
SortDedup(s) ==
    IF s = <<>> THEN <<>>
    ELSE InsertUnique(SortDedup(SubSeq(s, 1, Len(s) - 1)), s[Len(s)])

\* A finish that keeps the registration order.
Unsorted(s) == s

\* locks.sort_unstable_by_key(|m| *m as *const R): an insertion sort, which is
\* what the standard library runs on slices this short.
RECURSIVE SortByAddr(_)
SortByAddr(s) ==
    IF s = <<>> THEN <<>>
    ELSE InsertByAddr(SortByAddr(SubSeq(s, 1, Len(s) - 1)), s[Len(s)])

IsSorted(s) == \A i \in 1..Len(s) - 1 : s[i] <= s[i + 1]

\* A brand that is not fresh: the one of the call before.
ReusedBrand == IF nextId = 0 THEN 1 ELSE nextId

\* The brand of a new multilock call: the fresh 'id the higher-ranked bound
\* for<'id> makes of every call.
NewBrand == nextId + 1

\* A Token: the mutex it refers to and the 'id of the Builder that made it.
Token(r, b) == [mutex |-> r, brand |-> b]
AllTokens == UNION {tokens[t] : t \in Slots}

\* The resources a session has locked and not unlocked.
HeldBy(t) == {r \in Resources : Count(lockLog[t], r) > Count(unlockLog[t], r)}

TypeOK ==
    /\ pc \in [Slots -> {"idle", "building", "finishing", "locked",
                           "dropping", "dropped", "raw", "rawheld"}]
    /\ brand \in [Slots -> 0..MaxSessions + MaxNested]
    /\ nextId \in 0..MaxSessions + MaxNested
    /\ \A t \in Slots : builder[t] \in Seq(Resources)
    /\ \A t \in Slots : locks[t] \in Seq(Resources)
    /\ idx \in [Slots -> 0..NumRes + 1]
    /\ locked \in [Resources -> BOOLEAN]
    /\ data \in [Resources -> Values]
    /\ \A r \in Resources : holders[r] \subseteq 0..MaxSessions + MaxNested
    /\ \A t \in Slots : /\ DOMAIN expect[t] \subseteq Resources
                        /\ \A r \in DOMAIN expect[t] : expect[t][r] \in Values
    /\ issued \in Seq(1..MaxSessions + MaxNested)
    /\ assertFailed \in BOOLEAN

Init ==
    /\ pc = [t \in Slots |-> "idle"]
    /\ brand = [t \in Slots |-> 0]
    /\ nextId = 0
    /\ builder = [t \in Slots |-> <<>>]
    /\ tokens = [t \in Slots |-> {}]
    /\ locks = [t \in Slots |-> <<>>]
    /\ idx = [t \in Slots |-> 0]
    /\ locked = [r \in Resources |-> FALSE]
    /\ data = [r \in Resources |-> InitValue]
    /\ holders = [r \in Resources |-> {}]
    /\ registered = [t \in Slots |-> <<>>]
    /\ lockLog = [t \in Slots |-> <<>>]
    /\ unlockLog = [t \in Slots |-> <<>>]
    /\ expect = [t \in Slots |-> EmptyFn]
    /\ issued = <<>>
    /\ assertFailed = FALSE
    /\ exit = [t \in Slots |-> "none"]

\* multilock(func): a Builder with a fresh 'id and no locks is handed to func.
Multilock(t) ==
    /\ pc[t] = "idle"
    /\ nextId < MaxSessions
    /\ pc' = [pc EXCEPT ![t] = "building"]
    /\ brand' = [brand EXCEPT ![t] = NewBrand]
    /\ nextId' = nextId + 1
    /\ builder' = [builder EXCEPT ![t] = <<>>]
    /\ tokens' = [tokens EXCEPT ![t] = {}]
    /\ locks' = [locks EXCEPT ![t] = <<>>]
    /\ idx' = [idx EXCEPT ![t] = 0]
    /\ registered' = [registered EXCEPT ![t] = <<>>]
    /\ lockLog' = [lockLog EXCEPT ![t] = <<>>]
    /\ unlockLog' = [unlockLog EXCEPT ![t] = <<>>]
    /\ issued' = Append(issued, NewBrand)
    /\ exit' = [exit EXCEPT ![t] = "none"]
    /\ UNCHANGED <<locked, holders, dataVars>>

\* An add that takes the mutex at once, waiting for it if it is held.
AddLocking(t, r) ==
    /\ pc[t] = "building"
    /\ ~locked[r]
    /\ locked' = [locked EXCEPT ![r] = TRUE]
    /\ builder' = [builder EXCEPT ![t] = Append(@, r)]
    /\ tokens' = [tokens EXCEPT ![t] = @ \cup {Token(r, brand[t])}]
    /\ registered' = [registered EXCEPT ![t] = Append(@, r)]
    /\ UNCHANGED <<pc, brand, nextId, locks, idx, holders, dataVars,
                   lockLog, unlockLog, issued, exit>>

\* Builder::add: push the raw mutex, return a Token of this Builder's 'id.
Add(t, r) ==
    /\ pc[t] = "building"
    /\ builder' = [builder EXCEPT ![t] = Append(@, r)]
    /\ tokens' = [tokens EXCEPT ![t] = @ \cup {Token(r, brand[t])}]
    /\ registered' = [registered EXCEPT ![t] = Append(@, r)]
    /\ UNCHANGED <<pc, brand, nextId, locks, idx, mutexVars, dataVars,
                   lockLog, unlockLog, issued, exit>>

\* The sessions of the crate's contract register no mutex twice.
AddOnce(t, r) ==
    /\ r \notin Range(builder[t])
    /\ Add(t, r)

\* A finish that waits until something has been registered.
FinishNonEmpty(t) ==
    /\ pc[t] = "building"
    /\ builder[t] # <<>>
    /\ locks' = [locks EXCEPT ![t] = SortByAddr(builder[t])]
    /\ builder' = [builder EXCEPT ![t] = <<>>]
    /\ idx' = [idx EXCEPT ![t] = 1]
    /\ pc' = [pc EXCEPT ![t] = "finishing"]
    /\ UNCHANGED <<brand, nextId, tokens, mutexVars, dataVars, logVars, issued,
                   exit>>

\* Builder::finish, up to its loop: the Builder's locks are moved out and sorted
\* by address. With nothing registered the loop body never runs and the Locker
\* is returned at once.
Finish(t) ==
    /\ pc[t] = "building"
    /\ locks' = [locks EXCEPT ![t] = SortByAddr(builder[t])]
    /\ builder' = [builder EXCEPT ![t] = <<>>]
    /\ idx' = [idx EXCEPT ![t] = 1]
    /\ pc' = [pc EXCEPT ![t] = IF builder[t] = <<>> THEN "locked" ELSE "finishing"]
    /\ UNCHANGED <<brand, nextId, tokens, mutexVars, dataVars, logVars, issued,
                   exit>>

\* A loop iteration whose lock() returns whether or not the mutex is free.
LockStepNoWait(t) ==
    /\ pc[t] = "finishing"
    /\ LET r == locks[t][idx[t]] IN
        /\ locked' = [locked EXCEPT ![r] = TRUE]
        /\ holders' = [holders EXCEPT ![r] = @ \cup {brand[t]}]
        /\ lockLog' = [lockLog EXCEPT ![t] = Append(@, r)]
        /\ expect' = [expect EXCEPT ![t] = Extend(@, r, data[r])]
    /\ idx' = [idx EXCEPT ![t] = @ + 1]
    /\ pc' = [pc EXCEPT ![t] = IF idx[t] = Len(locks[t]) THEN "locked"
                                ELSE "finishing"]
    /\ UNCHANGED <<brand, nextId, builder, tokens, locks, data, assertFailed,
                   registered, unlockLog, issued, exit>>

\* One iteration of finish's loop: raw.lock() blocks until the mutex is free
\* and takes it. After the last one finish returns the Locker.
LockStep(t) ==
    /\ pc[t] = "finishing"
    /\ LET r == locks[t][idx[t]] IN
        /\ ~locked[r]
        /\ locked' = [locked EXCEPT ![r] = TRUE]
        /\ holders' = [holders EXCEPT ![r] = @ \cup {brand[t]}]
        /\ lockLog' = [lockLog EXCEPT ![t] = Append(@, r)]
        /\ expect' = [expect EXCEPT ![t] = Extend(@, r, data[r])]
    /\ idx' = [idx EXCEPT ![t] = @ + 1]
    /\ pc' = [pc EXCEPT ![t] = IF idx[t] = Len(locks[t]) THEN "locked"
                                ELSE "finishing"]
    /\ UNCHANGED <<brand, nextId, builder, tokens, locks, data, assertFailed,
                   registered, unlockLog, issued, exit>>

\* The borrow checker's part in get and get_mut: the Token and the Locker
\* carry the same invariant 'id.
SameId(tok, t) == tok.brand = brand[t]

\* get and get_mut callable with no Locker at hand.
CanAccessNoLocker(t, tok) ==
    /\ pc[t] \in {"building", "finishing", "locked", "dropped"}
    /\ SameId(tok, t)

\* The states in which get or get_mut can be called on tok with the Locker of
\* thread t: the Locker is alive and not being dropped, and the call
\* type-checks.
CanAccess(t, tok) ==
    /\ pc[t] = "locked"
    /\ SameId(tok, t)

\* What the reference returned by get or get_mut points at: the mutex's data.
Deref(tok) == data[tok.mutex]

\* Token::get with the Locker of thread t: the debug_assert, then a shared
\* reference to the data. Nothing is locked, unlocked or written.
Get(t, tok) ==
    /\ CanAccess(t, tok)
    /\ assertFailed' = (assertFailed \/ ~locked[tok.mutex])
    /\ UNCHANGED <<pc, brand, nextId, sessionVars, mutexVars, logVars, data,
                   expect, issued, exit>>

\* A get_mut whose reference points at a copy of the data.
GetMutCopy(t, tok, v) ==
    /\ pc[t] = "locked"
    /\ SameId(tok, t)
    /\ assertFailed' = (assertFailed \/ ~locked[tok.mutex])
    /\ expect' = [expect EXCEPT ![t] = Extend(@, tok.mutex, v)]
    /\ UNCHANGED <<pc, brand, nextId, sessionVars, mutexVars, logVars, issued,
                   exit, data>>

\* Token::get_mut with the Locker of thread t, and a store of v through the
\* reference it returns.
GetMut(t, tok, v) ==
    /\ CanAccess(t, tok)
    /\ assertFailed' = (assertFailed \/ ~locked[tok.mutex])
    /\ data' = [data EXCEPT ![tok.mutex] = v]
    /\ expect' = [expect EXCEPT ![t] = Extend(@, tok.mutex, v)]
    /\ UNCHANGED <<pc, brand, nextId, sessionVars, mutexVars, logVars, issued,
                   exit>>

\* Where a thread is once its Locker's drop has run: after drop(locker) the
\* callback goes on, after a return or a panic multilock is left.
AfterDrop(cause) == IF cause = "explicit" THEN "dropped" ELSE "idle"

\* The orders in which the entries of s can be taken.
RECURSIVE Perms(_)
Perms(s) ==
    IF s = <<>> THEN {<<>>}
    ELSE UNION {{<<x>> \o p : p \in Perms(SelectSeq(s, LAMBDA y : y # x))} :
                x \in Range(s)}

\* A release that runs on drop(locker) and on return, but not when unwinding.
DropLockerNoUnwind(t, cause) ==
    /\ pc[t] = "locked"
    /\ exit' = [exit EXCEPT ![t] = cause]
    /\ idx' = [idx EXCEPT ![t] = 1]
    /\ pc' = [pc EXCEPT ![t] = IF locks[t] = <<>> \/ cause = "panic"
                                THEN AfterDrop(cause) ELSE "dropping"]
    /\ tokens' = [tokens EXCEPT ![t] =
                    IF (locks[t] = <<>> \/ cause = "panic") /\ cause # "explicit"
                    THEN {} ELSE @]
    /\ UNCHANGED <<brand, nextId, builder, locks, mutexVars, logVars, dataVars,
                   issued>>

\* The Locker is dropped: by drop(locker), at the end of the callback's scope,
\* or by the unwinding of a panic in the callback. Locker::drop starts.
DropLocker(t, cause) ==
    /\ pc[t] = "locked"
    /\ exit' = [exit EXCEPT ![t] = cause]
    /\ idx' = [idx EXCEPT ![t] = 1]
    /\ pc' = [pc EXCEPT ![t] = IF locks[t] = <<>> THEN AfterDrop(cause)
                                ELSE "dropping"]
    /\ tokens' = [tokens EXCEPT ![t] = IF locks[t] = <<>> /\ cause # "explicit"
                                        THEN {} ELSE @]
    /\ UNCHANGED <<brand, nextId, builder, locks, mutexVars, logVars, dataVars,
                   issued>>

\* A drop loop that walks the Locker's vector from its end.
UnlockStepFromEnd(t) ==
    /\ pc[t] = "dropping"
    /\ LET r == locks[t][Len(locks[t]) + 1 - idx[t]]
           last == idx[t] = Len(locks[t])
       IN
        /\ locked' = [locked EXCEPT ![r] = FALSE]
        /\ holders' = [holders EXCEPT ![r] = @ \ {brand[t]}]
        /\ unlockLog' = [unlockLog EXCEPT ![t] = Append(@, r)]
        /\ expect' = [expect EXCEPT ![t] = Without(@, r)]
        /\ idx' = [idx EXCEPT ![t] = @ + 1]
        /\ pc' = [pc EXCEPT ![t] = IF last THEN AfterDrop(exit[t])
                                    ELSE "dropping"]
        /\ locks' = [locks EXCEPT ![t] = IF last THEN <<>> ELSE @]
        /\ tokens' = [tokens EXCEPT ![t] = IF last /\ exit[t] # "explicit"
                                            THEN {} ELSE @]
    /\ UNCHANGED <<brand, nextId, builder, data, assertFailed, registered,
                   lockLog, issued, exit>>

\* A drop loop that leaves the first mutex of the Locker locked.
UnlockStepSkipFirst(t) ==
    /\ pc[t] = "dropping"
    /\ LET r == locks[t][idx[t]]
           last == idx[t] = Len(locks[t])
       IN
        /\ locked' = IF idx[t] = 1 THEN locked ELSE [locked EXCEPT ![r] = FALSE]
        /\ holders' = IF idx[t] = 1 THEN holders
                      ELSE [holders EXCEPT ![r] = @ \ {brand[t]}]
        /\ unlockLog' = IF idx[t] = 1 THEN unlockLog
                        ELSE [unlockLog EXCEPT ![t] = Append(@, r)]
        /\ expect' = [expect EXCEPT ![t] = Without(@, r)]
        /\ idx' = [idx EXCEPT ![t] = @ + 1]
        /\ pc' = [pc EXCEPT ![t] = IF last THEN AfterDrop(exit[t])
                                    ELSE "dropping"]
        /\ locks' = [locks EXCEPT ![t] = IF last THEN <<>> ELSE @]
        /\ tokens' = [tokens EXCEPT ![t] = IF last /\ exit[t] # "explicit"
                                            THEN {} ELSE @]
    /\ UNCHANGED <<brand, nextId, builder, data, assertFailed, registered,
                   lockLog, issued, exit>>

\* One iteration of Locker::drop's loop: raw.unlock().
UnlockStep(t) ==
    /\ pc[t] = "dropping"
    /\ LET r == locks[t][idx[t]]
           last == idx[t] = Len(locks[t])
       IN
        /\ locked' = [locked EXCEPT ![r] = FALSE]
        /\ holders' = [holders EXCEPT ![r] = @ \ {brand[t]}]
        /\ unlockLog' = [unlockLog EXCEPT ![t] = Append(@, r)]
        /\ expect' = [expect EXCEPT ![t] = Without(@, r)]
        /\ idx' = [idx EXCEPT ![t] = @ + 1]
        /\ pc' = [pc EXCEPT ![t] = IF last THEN AfterDrop(exit[t])
                                    ELSE "dropping"]
        /\ locks' = [locks EXCEPT ![t] = IF last THEN <<>> ELSE @]
        /\ tokens' = [tokens EXCEPT ![t] = IF last /\ exit[t] # "explicit"
                                            THEN {} ELSE @]
    /\ UNCHANGED <<brand, nextId, builder, data, assertFailed, registered,
                   lockLog, issued, exit>>

\* A multilock that unlocks what was registered when the callback returns,
\* though drop(locker) has done it.
ReturnUnlocksAgain(t) ==
    /\ pc[t] = "dropped"
    /\ pc' = [pc EXCEPT ![t] = "idle"]
    /\ tokens' = [tokens EXCEPT ![t] = {}]
    /\ locked' = [r \in Resources |->
                    IF r \in Range(registered[t]) THEN FALSE ELSE locked[r]]
    /\ holders' = [r \in Resources |-> holders[r] \ {brand[t]}]
    /\ unlockLog' = [unlockLog EXCEPT ![t] = @ \o SortByAddr(registered[t])]
    /\ UNCHANGED <<brand, nextId, builder, locks, idx, registered, lockLog,
                   dataVars, issued, exit>>

\* The callback ends after drop(locker): multilock returns.
Return(t) ==
    /\ pc[t] = "dropped"
    /\ pc' = [pc EXCEPT ![t] = "idle"]
    /\ tokens' = [tokens EXCEPT ![t] = {}]
    /\ UNCHANGED <<brand, nextId, builder, locks, idx, mutexVars, logVars,
                   dataVars, issued, exit>>

\* A Builder whose drop unlocks what was registered, as a Locker's does.
AbandonUnlocks(t, cause) ==
    /\ pc[t] = "building"
    /\ pc' = [pc EXCEPT ![t] = "idle"]
    /\ builder' = [builder EXCEPT ![t] = <<>>]
    /\ tokens' = [tokens EXCEPT ![t] = {}]
    /\ exit' = [exit EXCEPT ![t] = "abandon"]
    /\ locked' = [r \in Resources |->
                    IF r \in Range(builder[t]) THEN FALSE ELSE locked[r]]
    /\ UNCHANGED <<brand, nextId, locks, idx, holders, logVars, dataVars,
                   issued>>

\* The callback returns or panics without calling finish: the Builder and the
\* Tokens are dropped, and neither has a Drop that touches a mutex.
Abandon(t, cause) ==
    /\ pc[t] = "building"
    /\ pc' = [pc EXCEPT ![t] = "idle"]
    /\ builder' = [builder EXCEPT ![t] = <<>>]
    /\ tokens' = [tokens EXCEPT ![t] = {}]
    /\ exit' = [exit EXCEPT ![t] = "abandon"]
    /\ UNCHANGED <<brand, nextId, locks, idx, mutexVars, logVars, dataVars,
                   issued>>

ExitCauses == {"explicit", "return", "panic"}

\* The steps of the sessions, but for the stores of the callbacks.
SessionNext ==
    \E t \in Threads :
        \/ Multilock(t)
        \/ \E r \in Resources : AddOnce(t, r)
        \/ Finish(t)
        \/ LockStep(t)
        \/ \E tok \in AllTokens : Get(t, tok)
        \/ \E cause \in ExitCauses : DropLocker(t, cause)
        \/ UnlockStep(t)
        \/ Return(t)
        \/ \E cause \in {"return", "panic"} : Abandon(t, cause)

Next ==
    \/ SessionNext
    \/ \E t \in Threads : \E tok \in AllTokens, v \in Values : GetMut(t, tok, v)

Spec == Init /\ [][Next]_vars

\* Fair scheduling of the blocking and releasing steps, and callbacks that end:
\* a lock() whose mutex stays free returns, a callback holding a Locker leaves
\* its scope, and a drop that has started goes on.
Fairness ==
    \A t \in Threads :
        /\ WF_vars(LockStep(t))
        /\ WF_vars(\E cause \in ExitCauses : DropLocker(t, cause))
        /\ WF_vars(UnlockStep(t))

\* The sessions under fair scheduling. What a callback stores in the data is
\* read by no step that locks, unlocks or changes where a thread is, so the
\* stores are left out.
FairSpec == Init /\ [][SessionNext]_vars /\ Fairness

\* A raw.lock() of finish's loop panics (RawMutex is a trait of the caller's
\* choosing). The unwinding drops finish's `locks`, a vector of references, and
\* the callback's Tokens; no Locker was made, so no Locker::drop runs.
LockPanic(t) ==
    /\ pc[t] = "finishing"
    /\ pc' = [pc EXCEPT ![t] = "idle"]
    /\ locks' = [locks EXCEPT ![t] = <<>>]
    /\ tokens' = [tokens EXCEPT ![t] = {}]
    /\ exit' = [exit EXCEPT ![t] = "lock_panic"]
    /\ UNCHANGED <<brand, nextId, builder, idx, mutexVars, logVars, dataVars,
                   issued>>

NextLockFail ==
    \/ Next
    \/ \E t \in Threads : LockPanic(t)

\* The sessions of Spec, over raw mutexes whose lock() may panic.
SpecLockFail == Init /\ [][NextLockFail]_vars

\* An add of any mutex, registered before or not: the Builder does not look.
AddAny(t, r) ==
    /\ Len(builder[t]) < MaxAdds
    /\ Add(t, r)

DupNext ==
    \E t \in Threads :
        \/ Multilock(t)
        \/ \E r \in Resources : AddAny(t, r)
        \/ Finish(t)
        \/ LockStep(t)
        \/ \E tok \in AllTokens : Get(t, tok)
        \/ \E cause \in ExitCauses : DropLocker(t, cause)
        \/ UnlockStep(t)
        \/ Return(t)
        \/ \E cause \in {"return", "panic"} : Abandon(t, cause)

\* Sessions that may register the same mutex more than once.
SpecDup == Init /\ [][DupNext]_vars

\* Code outside multilock that is about to lock mutex a and then mutex b with
\* Mutex::lock, as the crate's example does after its session, here with the
\* higher address first. It has no session, hence no brand.
RawStart(t, a, b) ==
    /\ pc[t] = "idle"
    /\ a > b
    /\ pc' = [pc EXCEPT ![t] = "raw"]
    /\ brand' = [brand EXCEPT ![t] = 0]
    /\ locks' = [locks EXCEPT ![t] = <<a, b>>]
    /\ idx' = [idx EXCEPT ![t] = 1]
    /\ registered' = [registered EXCEPT ![t] = <<>>]
    /\ lockLog' = [lockLog EXCEPT ![t] = <<>>]
    /\ unlockLog' = [unlockLog EXCEPT ![t] = <<>>]
    /\ exit' = [exit EXCEPT ![t] = "none"]
    /\ UNCHANGED <<nextId, builder, tokens, mutexVars, dataVars, issued>>

\* One Mutex::lock of that code: it blocks until the mutex is free.
RawLock(t) ==
    /\ pc[t] = "raw"
    /\ LET r == locks[t][idx[t]] IN
        /\ ~locked[r]
        /\ locked' = [locked EXCEPT ![r] = TRUE]
        /\ holders' = [holders EXCEPT ![r] = @ \cup {brand[t]}]
        /\ lockLog' = [lockLog EXCEPT ![t] = Append(@, r)]
    /\ idx' = [idx EXCEPT ![t] = @ + 1]
    /\ pc' = [pc EXCEPT ![t] = IF idx[t] = Len(locks[t]) THEN "rawheld"
                                ELSE "raw"]
    /\ UNCHANGED <<brand, nextId, builder, tokens, locks, dataVars, registered,
                   unlockLog, issued, exit>>

\* The guards of that code go out of scope, the last one taken first.
RawUnlock(t) ==
    /\ pc[t] = "rawheld"
    /\ LET r == locks[t][idx[t] - 1] IN
        /\ locked' = [locked EXCEPT ![r] = FALSE]
        /\ holders' = [holders EXCEPT ![r] = @ \ {brand[t]}]
        /\ unlockLog' = [unlockLog EXCEPT ![t] = Append(@, r)]
    /\ idx' = [idx EXCEPT ![t] = @ - 1]
    /\ pc' = [pc EXCEPT ![t] = IF idx[t] = 2 THEN "idle" ELSE "rawheld"]
    /\ UNCHANGED <<brand, nextId, builder, tokens, locks, dataVars, registered,
                   lockLog, issued, exit>>

RawNext ==
    \/ SessionNext
    \/ \E t \in Threads :
          \/ \E a, b \in Resources : RawStart(t, a, b)
          \/ RawLock(t)
          \/ RawUnlock(t)

\* Sessions beside code that locks pairs of mutexes without multilock.
SpecRaw == Init /\ [][RawNext]_vars

\* A Locker whose drop, at the end of the callback's scope, walks its vector in
\* the order p instead of the sorted one that finish left.
DropLockerInOrder(t, p) ==
    /\ pc[t] = "locked"
    /\ locks[t] # <<>>
    /\ p \in Perms(locks[t])
    /\ locks' = [locks EXCEPT ![t] = p]
    /\ exit' = [exit EXCEPT ![t] = "any_order"]
    /\ idx' = [idx EXCEPT ![t] = 1]
    /\ pc' = [pc EXCEPT ![t] = "dropping"]
    /\ UNCHANGED <<brand, nextId, builder, tokens, mutexVars, logVars, dataVars,
                   issued>>

AnyReleaseNext ==
    \/ SessionNext
    \/ \E t \in Threads : \E p \in Perms(locks[t]) : DropLockerInOrder(t, p)

\* Sessions whose Lockers release in the code's order or in any other, under
\* fair scheduling.
SpecAnyRelease == Init /\ [][AnyReleaseNext]_vars /\ Fairness

\* multilock(func) called in the callback of thread t's session while that
\* session's Locker is alive: a second Builder, with a fresh 'id of its own.
NestedMultilock(t) ==
    /\ pc[t] = "locked"
    /\ pc[Inner(t)] = "idle"
    /\ nextId < MaxSessions + MaxNested
    /\ pc' = [pc EXCEPT ![Inner(t)] = "building"]
    /\ brand' = [brand EXCEPT ![Inner(t)] = NewBrand]
    /\ nextId' = nextId + 1
    /\ builder' = [builder EXCEPT ![Inner(t)] = <<>>]
    /\ tokens' = [tokens EXCEPT ![Inner(t)] = {}]
    /\ locks' = [locks EXCEPT ![Inner(t)] = <<>>]
    /\ idx' = [idx EXCEPT ![Inner(t)] = 0]
    /\ registered' = [registered EXCEPT ![Inner(t)] = <<>>]
    /\ lockLog' = [lockLog EXCEPT ![Inner(t)] = <<>>]
    /\ unlockLog' = [unlockLog EXCEPT ![Inner(t)] = <<>>]
    /\ issued' = Append(issued, NewBrand)
    /\ exit' = [exit EXCEPT ![Inner(t)] = "none"]
    /\ UNCHANGED <<locked, holders, dataVars>>

\* The nested session registers a mutex that the thread's Locker does not hold.
NestedAdd(t, r) ==
    /\ r \notin HeldBy(t)
    /\ AddOnce(Inner(t), r)

\* The outer Locker lives until the nested multilock call has returned.
OuterDrop(t, cause) ==
    /\ pc[Inner(t)] = "idle"
    /\ DropLocker(t, cause)

NestedNext ==
    \E t \in Threads :
        \/ Multilock(t)
        \/ \E r \in Resources : AddOnce(t, r)
        \/ Finish(t)
        \/ LockStep(t)
        \/ \E cause \in ExitCauses : OuterDrop(t, cause)
        \/ UnlockStep(t)
        \/ Return(t)
        \/ \E cause \in {"return", "panic"} : Abandon(t, cause)
        \/ NestedMultilock(t)
        \/ \E r \in Resources : NestedAdd(t, r)
        \/ Finish(Inner(t))
        \/ LockStep(Inner(t))
        \/ DropLocker(Inner(t), "return")
        \/ UnlockStep(Inner(t))
        \/ Abandon(Inner(t), "return")

\* Sessions whose callbacks may start a nested session over other mutexes.
\* The nested callback returns normally, and the reads and stores of the
\* callbacks, which change no lock, are left out.
SpecNested == Init /\ [][NestedNext]_vars

----------------------------------------------------------------------------
\* A thread is blocked when the raw.lock() it is at cannot return.
Blocked(t) == pc[t] = "finishing" /\ locked[locks[t][idx[t]]]

\* The threads inside a multilock call.
Active == {t \in Threads : pc[t] # "idle"}

NoDeadlockState == Active # {} => \E t \in Active : ~Blocked(t)

\* C1: sessions over arbitrary overlapping sets, registered in any order and
\* without duplicates, never reach a state in which every thread that is inside
\* a session is blocked in finish; under fair scheduling every finish returns
\* and every Locker releases all it holds.
C1_DeadlockFree ==
    /\ []NoDeadlockState
    /\ \A t \in Threads : (pc[t] = "finishing") ~> (pc[t] = "locked")
    /\ \A t \in Threads :
          (pc[t] = "locked") ~> (pc[t] \in {"idle", "dropped"} /\ HeldBy(t) = {})

\* Two sessions over overlapping sets registered in opposite orders, one
\* waiting in finish for a mutex the other holds.
C1_Witness ==
    \E t, u \in Threads :
        /\ t # u
        /\ registered[t] = <<1, 2>>
        /\ registered[u] = <<3, 2>>
        /\ 2 \in HeldBy(t)
        /\ Blocked(u)

\* The mutexes a session registered, and whether its finish has returned.
Registered(t) == Range(registered[t])
Finished(t) ==
    \/ pc[t] \in {"locked", "dropping", "dropped"}
    \/ pc[t] = "idle" /\ exit[t] \in ExitCauses
Released(t) ==
    \/ pc[t] = "dropped"
    \/ pc[t] = "idle" /\ exit[t] \in ExitCauses
HeldByOther(t, r) == \E u \in Threads \ {t} : r \in HeldBy(u)

\* C2: the raw lock() calls of every finish are in non-decreasing address
\* order, and two sessions whose finish has returned and that registered the
\* same set, in whatever orders, made the same sequence of lock() calls.
C2_Ordering ==
    /\ \A t \in Threads : IsSorted(lockLog[t])
    /\ \A t, u \in Threads :
          (Finished(t) /\ Finished(u) /\ Registered(t) = Registered(u))
              => lockLog[t] = lockLog[u]

\* Two finished sessions over the same three mutexes, registered in different
\* orders, neither of them ascending.
C2_Witness ==
    \E t, u \in Threads :
        /\ Finished(t) /\ Finished(u)
        /\ registered[t] = <<3, 1, 2>>
        /\ registered[u] = <<2, 3, 1>>
        /\ lockLog[t] = <<1, 2, 3>>

\* C3: no mutex is held by two sessions; a held mutex is locked, and a finish
\* whose next lock() is on a mutex another session holds cannot take that step.
C3_MutualExclusion ==
    /\ \A r \in Resources : Cardinality({t \in Threads : r \in HeldBy(t)}) <= 1
    /\ \A r \in Resources : Cardinality(holders[r]) <= 1
    /\ \A t \in Threads : \A r \in HeldBy(t) : locked[r]
    /\ \A t \in Threads :
          (pc[t] = "finishing" /\ HeldByOther(t, locks[t][idx[t]]))
              => ~ENABLED LockStep(t)

\* A Locker holds mutex 2 and another session's finish, holding mutex 1, waits
\* for mutex 2.
C3_Witness ==
    \E t, u \in Threads :
        /\ t # u
        /\ pc[t] = "locked" /\ 2 \in HeldBy(t)
        /\ pc[u] = "finishing" /\ locks[u][idx[u]] = 2 /\ 1 \in HeldBy(u)

\* C4: before finish every registered mutex that no other session holds is
\* unlocked; from the return of finish to the drop of the Locker exactly the
\* registered mutexes are locked by this session; after the drop, and after
\* multilock has returned, those no other session holds are unlocked again.
C4_Phases ==
    \A t \in Threads :
        /\ pc[t] = "building" =>
              \A r \in Registered(t) : ~HeldByOther(t, r) => ~locked[r]
        /\ pc[t] = "locked" =>
              /\ HeldBy(t) = Registered(t)
              /\ \A r \in Registered(t) : locked[r] /\ holders[r] = {brand[t]}
        /\ Released(t) =>
              /\ HeldBy(t) = {}
              /\ \A r \in Registered(t) : ~HeldByOther(t, r) => ~locked[r]

\* The test's end: two mutexes were registered and locked, the Locker was
\* dropped, multilock has returned and both are unlocked.
C4_Witness ==
    \E t \in Threads :
        /\ pc[t] = "idle" /\ exit[t] = "explicit"
        /\ Len(registered[t]) = 2
        /\ lockLog[t] = SortByAddr(registered[t])
        /\ \A r \in Registered(t) : ~locked[r]

\* C5: no debug_assert of get or get_mut fails, and in every state in which
\* get or get_mut can be called on a Token with a Locker, the Token's mutex is
\* locked and held by the session of that Locker.
C5_AccessSafety ==
    /\ ~assertFailed
    /\ \A t \in Threads : \A tok \in AllTokens :
          CanAccess(t, tok) =>
              /\ locked[tok.mutex]
              /\ holders[tok.mutex] = {brand[t]}
              /\ tok.mutex \in HeldBy(t)

\* Two sessions hold Lockers at once, each with Tokens to access, and one of
\* them has stored through get_mut.
C5_Witness ==
    \E t, u \in Threads :
        /\ t # u
        /\ pc[t] = "locked" /\ pc[u] = "locked"
        /\ \E tok \in tokens[t] : CanAccess(t, tok) /\ Deref(tok) # InitValue
        /\ \E tok \in tokens[u] : CanAccess(u, tok)

C7_ExactlyOnce ==
    \A t \in Threads : \A r \in Resources :
        /\ Count(unlockLog[t], r) <= Count(lockLog[t], r)
        /\ Count(lockLog[t], r) <= 1
        /\ Finished(t) =>
              Count(lockLog[t], r) = (IF r \in Registered(t) THEN 1 ELSE 0)
        /\ Released(t) =>
              Count(unlockLog[t], r) = (IF r \in Registered(t) THEN 1 ELSE 0)

\* drop(locker) released three mutexes and the callback has returned since.
C7_Witness ==
    \E t \in Threads :
        /\ pc[t] = "idle" /\ exit[t] = "explicit"
        /\ Len(registered[t]) = 3
        /\ unlockLog[t] = <<1, 2, 3>>

\* C8: when the callback panics or returns early with the Locker alive, the
\* Locker's drop runs all its unlock() calls without blocking, after it every
\* mutex the session locked is released, and a finish waiting for one of them
\* can go on.
C8_PanicSafety ==
    \A t \in Threads :
        /\ (pc[t] = "dropping" /\ exit[t] \in {"panic", "return"})
              => ENABLED UnlockStep(t)
        /\ (pc[t] = "idle" /\ exit[t] \in {"panic", "return"}) =>
              /\ HeldBy(t) = {}
              /\ unlockLog[t] = lockLog[t]
              /\ \A r \in Registered(t) :
                    /\ brand[t] \notin holders[r]
                    /\ ~HeldByOther(t, r) => ~locked[r]
              /\ \A u \in Threads \ {t} :
                    (/\ pc[u] = "finishing"
                     /\ locks[u][idx[u]] \in Registered(t)
                     /\ ~HeldByOther(u, locks[u][idx[u]]))
                        => ENABLED LockStep(u)

\* A callback holding two mutexes has panicked, its Locker has been dropped,
\* and another session's finish is about to lock one of the two.
C8_Witness ==
    \E t, u \in Threads :
        /\ t # u
        /\ pc[t] = "idle" /\ exit[t] = "panic"
        /\ Len(lockLog[t]) = 2
        /\ pc[u] = "finishing" /\ locks[u][idx[u]] \in Registered(t)

\* C9: when a lock() of finish panics, the mutexes that finish had already
\* locked are released, so that none stays locked by a session without Locker.
C9_ReleasedOnLockFailure ==
    \A t \in Threads :
        (pc[t] = "idle" /\ exit[t] = "lock_panic") =>
            /\ HeldBy(t) = {}
            /\ \A r \in Registered(t) : ~HeldByOther(t, r) => ~locked[r]

\* C10, in states: a mutex a session holds contains what the session last
\* stored in it with get_mut, or what it contained when the session locked it
\* if nothing was stored; that is what get returns.
C10_Held ==
    \A t \in Threads : \A r \in HeldBy(t) :
        /\ r \in DOMAIN expect[t]
        /\ Deref(Token(r, brand[t])) = expect[t][r]

\* C10, in steps: data changes only by a store of a session that holds the
\* mutex, and a mutex is released containing the session's last value.
C10_Step ==
    /\ \A r \in Resources :
          data'[r] # data[r] =>
              \E t \in Threads : /\ pc[t] = "locked"
                                 /\ r \in HeldBy(t)
                                 /\ data'[r] = expect'[t][r]
    /\ \A t \in Threads : \A r \in HeldBy(t) :
          r \notin HeldBy(t)' => data'[r] = expect[t][r]

\* C10: a value stored through get_mut is what a later get of the session
\* reads and what the mutex contains when the session is over, and a mutex
\* that was registered and not written keeps the value it had.
C10_RoundTrip == []C10_Held /\ [][C10_Step]_vars

\* A session over mutexes 1 and 2 stored 10 in the first and nothing in the
\* second, and has returned; no other session ran.
C10_Witness ==
    \E t \in Threads :
        /\ pc[t] = "idle" /\ exit[t] = "return" /\ nextId = 1
        /\ registered[t] = <<1, 2>>
        /\ data[1] = 2 * InitValue
        /\ data[2] = InitValue

\* C11, in states: add can be called on any mutex not yet registered, whether
\* it is free or held by another session, and a session that is still
\* registering has made no lock() or unlock() call.
C11_AddNeverBlocks ==
    \A t \in Threads :
        pc[t] = "building" =>
            /\ \A r \in Resources \ Range(builder[t]) : ENABLED AddOnce(t, r)
            /\ lockLog[t] = <<>> /\ unlockLog[t] = <<>>

\* C11, in steps: an add appends the mutex to the Builder's collection, makes
\* a Token for it, and leaves the lock state and the holder of every mutex,
\* the registered one included, as they were.
C11_AddStep ==
    \A t \in Threads :
        (pc[t] = "building" /\ registered'[t] # registered[t]) =>
            /\ \E r \in Resources :
                  /\ builder'[t] = Append(builder[t], r)
                  /\ tokens'[t] = tokens[t] \cup {Token(r, brand[t])}
            /\ pc'[t] = "building"
            /\ locked' = locked
            /\ holders' = holders
            /\ lockLog' = lockLog /\ unlockLog' = unlockLog

\* C11: add only appends to the Builder and returns a Token; it changes no
\* mutex's lock state or holder and never blocks.
C11_AddNoLocking == []C11_AddNeverBlocks /\ [][C11_AddStep]_vars

\* A session has registered mutex 2, which another session's Locker holds.
C11_Witness ==
    \E t, u \in Threads :
        /\ t # u
        /\ pc[t] = "building" /\ 2 \in Registered(t)
        /\ pc[u] = "locked" /\ 2 \in HeldBy(u) /\ locked[2]

\* C12: at every point of a finish the session holds exactly the mutexes
\* before the loop's position in the address order of what it registered, all
\* of them below the mutex it is about to lock.
C12_OrderedHoldAndWait ==
    \A t \in Threads :
        pc[t] = "finishing" =>
            /\ locks[t] = SortByAddr(registered[t])
            /\ lockLog[t] = SubSeq(SortByAddr(registered[t]), 1, idx[t] - 1)
            /\ HeldBy(t) = {locks[t][i] : i \in 1..idx[t] - 1}
            /\ \A h \in HeldBy(t) : h < locks[t][idx[t]]

\* A session that registered 3, 1, 2 holds 1 and 2 and waits for 3, which
\* another session holds.
C12_Witness ==
    \E t \in Threads :
        /\ registered[t] = <<3, 1, 2>>
        /\ HeldBy(t) = {1, 2}
        /\ Blocked(t)

\* The mutexes two sessions have both registered, and the lowest of a set.
Shared(t, u) == Registered(t) \cap Registered(u)
Lowest(S) == CHOOSE m \in S : \A x \in S : m <= x

\* C13 as claimed: of two sessions under way that share mutexes, once one
\* holds the lowest shared mutex the other holds no shared mutex.
C13_LowestSharedClaimed ==
    \A t, u \in Threads :
        (/\ t # u /\ pc[t] # "idle" /\ pc[u] # "idle"
         /\ Shared(t, u) # {}
         /\ Lowest(Shared(t, u)) \in HeldBy(t))
            => HeldBy(u) \cap Shared(t, u) = {}

\* C13, amended: once one session holds the lowest shared mutex, the other
\* holds no shared mutex and does not hold what the first is about to lock,
\* unless the other's Locker is in the middle of its drop; that drop is never
\* blocked.
C13_LowestShared ==
    \A t, u \in Threads :
        (/\ t # u /\ pc[t] # "idle" /\ pc[u] # "idle"
         /\ Shared(t, u) # {}
         /\ Lowest(Shared(t, u)) \in HeldBy(t))
            => IF pc[u] = "dropping"
               THEN ENABLED UnlockStep(u)
               ELSE /\ HeldBy(u) \cap Shared(t, u) = {}
                    /\ pc[t] = "finishing" => locks[t][idx[t]] \notin HeldBy(u)

\* One finish holds mutex 1, the lowest it shares with another finish, and is
\* about to lock 2; the other, which registered 2 first, waits for mutex 1.
C13_Witness ==
    \E t, u \in Threads :
        /\ t # u
        /\ pc[t] = "finishing" /\ registered[t] = <<1, 2>> /\ HeldBy(t) = {1}
        /\ pc[u] = "finishing" /\ registered[u] = <<2, 1>> /\ Blocked(u)

\* A session that registered nothing: in its callback, or over with a finish.
EmptySession(t) ==
    /\ registered[t] = <<>>
    /\ pc[t] # "idle" \/ exit[t] \in ExitCauses

\* C18, in states: a finish with nothing registered can always be called,
\* never waits in its loop, and the session makes no lock() and no unlock()
\* call; its Locker's drop has no iteration to run.
C18_EmptyNeverBlocks ==
    \A t \in Threads :
        EmptySession(t) =>
            /\ pc[t] = "building" => ENABLED Finish(t)
            /\ pc[t] \notin {"finishing", "dropping"}
            /\ lockLog[t] = <<>> /\ unlockLog[t] = <<>>
            /\ HeldBy(t) = {}

\* C18, in steps: no step of a session that registered nothing changes the
\* lock state or the holder of a mutex, and its finish returns the Locker in
\* the step that calls it.
C18_EmptyStep ==
    \A t \in Threads :
        (EmptySession(t) /\ registered'[t] = <<>> /\ pc'[t] # pc[t]) =>
            /\ locked' = locked
            /\ holders' = holders
            /\ pc[t] = "building" => pc'[t] \in {"locked", "idle"}

\* C18: a session with zero registered mutexes never blocks in finish, locks
\* and unlocks nothing, and leaves the lock state of every mutex unchanged.
C18_EmptySession == []C18_EmptyNeverBlocks /\ [][C18_EmptyStep]_vars

\* A session that registered nothing went through finish and the drop of its
\* Locker and has returned, while another session holds mutex 1.
C18_Witness ==
    \E t, u \in Threads :
        /\ t # u
        /\ pc[t] = "idle" /\ exit[t] = "return" /\ registered[t] = <<>>
        /\ pc[u] = "locked" /\ locked[1] /\ 1 \in HeldBy(u)

\* C19, in states: a session that is registering, or that ended without
\* finish, has made no lock() and no unlock() call and holds nothing.
C19_NoCalls ==
    \A t \in Threads :
        (pc[t] = "building" \/ (pc[t] = "idle" /\ exit[t] = "abandon")) =>
            /\ lockLog[t] = <<>> /\ unlockLog[t] = <<>>
            /\ HeldBy(t) = {}
            /\ \A r \in Resources : brand[t] \notin holders[r]

\* C19, in steps: multilock, the adds, and the end of a callback that never
\* called finish leave the lock state and the holder of every mutex as they
\* were.
C19_AbandonStep ==
    \A t \in Threads :
        (/\ pc[t] \in {"idle", "building"}
         /\ pc'[t] \in {"idle", "building"}
         /\ <<pc[t], registered[t]>> # <<pc'[t], registered'[t]>>) =>
            /\ locked' = locked
            /\ holders' = holders

\* C19: a callback that returns or panics after its adds and without finish
\* issues no lock() and no unlock(), and every mutex is locked or unlocked as
\* it was before multilock was called.
C19_AbandonedSession == []C19_NoCalls /\ [][C19_AbandonStep]_vars

\* A session registered mutexes 1 and 2 and ended without finish, while
\* another session's Locker holds mutex 1.
C19_Witness ==
    \E t, u \in Threads :
        /\ t # u
        /\ pc[t] = "idle" /\ exit[t] = "abandon" /\ Registered(t) = {1, 2}
        /\ pc[u] = "locked" /\ HeldBy(u) = {1} /\ locked[1]

\* A registration with the same mutex in it twice, and a finish whose next
\* lock() is on a mutex the session itself holds.
HasDup(s) == \E i, j \in 1..Len(s) : i # j /\ s[i] = s[j]
SelfBlocked(t) == pc[t] = "finishing" /\ locks[t][idx[t]] \in HeldBy(t)

\* C15, in states: finish keeps every registration, duplicates included; a
\* finish that is at the second lock() on a mutex made the first one just
\* before, once, and cannot take the second; a session that registered a mutex
\* twice never gets a Locker.
C15_SelfBlock ==
    \A t \in Threads :
        /\ pc[t] = "finishing" =>
              \A r \in Resources : Count(locks[t], r) = Count(registered[t], r)
        /\ SelfBlocked(t) =>
              /\ idx[t] > 1
              /\ locks[t][idx[t] - 1] = locks[t][idx[t]]
              /\ Count(lockLog[t], locks[t][idx[t]]) = 1
              /\ ~ENABLED LockStep(t)
        /\ HasDup(registered[t]) => ~Finished(t)

\* C15, in steps: a finish blocked on a mutex of its own stays blocked and
\* what it holds stays held.
C15_StaysBlocked ==
    \A t \in Threads :
        SelfBlocked(t) =>
            /\ SelfBlocked(t)'
            /\ HeldBy(t)' = HeldBy(t)
            /\ unlockLog'[t] = unlockLog[t]

\* C15: the Builder does not deduplicate; a session that registered a mutex
\* twice locks it once in finish and blocks for ever on the next lock(), on the
\* same mutex, so finish never returns and what was locked is never released.
C15_DuplicateDeadlock == []C15_SelfBlock /\ [][C15_StaysBlocked]_vars

\* A session registered 2, 1, 2, locked 1 and 2 and is at the second lock()
\* on mutex 2.
C15_Witness ==
    \E t \in Threads :
        /\ registered[t] = <<2, 1, 2>>
        /\ HeldBy(t) = {1, 2}
        /\ SelfBlocked(t)

\* A thread locking directly holds the mutex a finish waits for, and waits
\* for a mutex that finish holds.
RawDeadlock(s, t) ==
    /\ pc[s] = "raw" /\ pc[t] = "finishing"
    /\ locks[s][idx[s]] \in HeldBy(t)
    /\ locks[t][idx[t]] \in HeldBy(s)

\* C16, in states: add and finish can be called whatever is locked outside
\* multilock, and finish locks in ascending order all the same; where a
\* direct locker and a finish wait for each other neither lock() can return.
C16_Unprevented ==
    /\ \A t \in Threads :
          pc[t] = "building" =>
              /\ ENABLED Finish(t)
              /\ \A r \in Resources \ Range(builder[t]) : ENABLED AddOnce(t, r)
    /\ \A t \in Threads : pc[t] = "finishing" => IsSorted(locks[t])
    /\ \A s, t \in Threads :
          RawDeadlock(s, t) => ~ENABLED RawLock(s) /\ ~ENABLED LockStep(t)

\* C16, in steps: a direct locker and a finish that wait for each other do so
\* for ever.
C16_StaysDeadlocked ==
    \A s, t \in Threads : RawDeadlock(s, t) => RawDeadlock(s, t)'

\* C16: beside a thread that locks two mutexes directly in descending order,
\* a session over the same two can end in a state where both threads are
\* blocked for ever, and add and finish do nothing to detect or prevent it.
C16_ClosureNeeded == []C16_Unprevented /\ [][C16_StaysDeadlocked]_vars

\* A thread locked mutex 2 directly and waits for 1; a session over 1 and 2
\* locked 1 in finish and waits for 2.
C16_Witness ==
    \E s, t \in Threads :
        /\ RawDeadlock(s, t)
        /\ locks[s] = <<2, 1>> /\ HeldBy(s) = {2}
        /\ Registered(t) = {1, 2} /\ HeldBy(t) = {1}

\* s is the beginning of q.
IsPrefix(s, q) == Len(s) <= Len(q) /\ s = SubSeq(q, 1, Len(s))

\* Locker::drop as written unlocks in the order finish locked, the ascending
\* one.
C17_DropAscending ==
    \A t \in Threads :
        exit[t] \in ExitCauses =>
            IsSorted(unlockLog[t]) /\ IsPrefix(unlockLog[t], lockLog[t])

\* No two sessions hold a mutex at once, whatever has been released and in
\* whatever order.
C17_Exclusion ==
    /\ \A r \in Resources : Cardinality({t \in Threads : r \in HeldBy(t)}) <= 1
    /\ \A r \in Resources : locked[r] <=> (\E t \in Threads : r \in HeldBy(t))

\* C17: Locker::drop releases in ascending order, the order of acquisition;
\* and whatever the order in which Lockers release, no state has every
\* session blocked in finish, no drop waits, every finish returns, and no
\* mutex is held by two sessions.
C17_ReleaseOrderIrrelevant ==
    /\ [](C17_DropAscending /\ C17_Exclusion /\ NoDeadlockState)
    /\ [](\A t \in Threads : pc[t] = "dropping" => ENABLED UnlockStep(t))
    /\ \A t \in Threads : (pc[t] = "finishing") ~> (pc[t] = "locked")

\* A Locker over mutexes 1, 2 and 3 has released 3 and then 1 and still holds
\* 2, while another session's finish waits for a mutex.
C17_Witness ==
    \E t, u \in Threads :
        /\ t # u
        /\ pc[t] = "dropping" /\ exit[t] = "any_order"
        /\ lockLog[t] = <<1, 2, 3>> /\ unlockLog[t] = <<3, 1>>
        /\ pc[u] = "finishing" /\ HeldBy(u) = {1} /\ Blocked(u)

\* The session a thread is executing: the nested one while it lasts.
Running(t) == IF pc[Inner(t)] # "idle" THEN Inner(t) ELSE t

\* C14: with sessions nested in callbacks, each over mutexes its thread does
\* not hold, no state has every thread that is inside multilock blocked in
\* finish.
C14_NestedDeadlockFree ==
    Active # {} => \E t \in Active : ~Blocked(Running(t))

====
